---- MODULE Spec2Model ----
(***************************************************************************)
(* Model of evalplus/codegen.py: run_codegen and the resumable generation  *)
(* loop codegen, over a file system holding the two output layouts (the    *)
(* .jsonl log pair and the per-task directory tree).                       *)
(*                                                                         *)
(* Text is a sequence of string tokens, a path is a sequence of tokens     *)
(* with "/" between components, a log file is a sequence of lines.  One    *)
(* behaviour follows one output location (one model, one layout) through   *)
(* successive invocations of run_codegen.                                  *)
(***************************************************************************)
EXTENDS Integers, Sequences, FiniteSets, TLC

\* ------------------------------------------------------------------ bounds
NumTasks   == 2      \* tasks of the dataset
MaxSamples == 2      \* largest n_samples a caller passes
MaxOutputs == 2      \* longest sequence one backend call returns
MaxRuns    == 2      \* invocations of run_codegen in one behaviour
MaxLogLines == 2     \* lines of a log found at the start (SpecLog)
MaxOldIndex == 1     \* largest index of a sample file found at the start (SpecDir)

\* ------------------------------------------------------- values and text
None == <<"None">>                       \* Python's None (for id_range)

Numeral == <<"0", "1", "2", "3", "4", "5", "6", "7", "8", "9">>
Str(i) == Numeral[i + 1]                                   \* f"{i}"
ParseInt(s) == CHOOSE i \in 0..9 : Numeral[i + 1] = s           \* int(s)

Whitespace == {" ", "\n"}

RECURSIVE LStrip(_)
LStrip(s) == IF s # <<>> /\ Head(s) \in Whitespace THEN LStrip(Tail(s)) ELSE s

RECURSIVE RStrip(_)
RStrip(s) ==
    IF s # <<>> /\ s[Len(s)] \in Whitespace
    THEN RStrip(SubSeq(s, 1, Len(s) - 1))
    ELSE s

Strip(s) == RStrip(LStrip(s))                              \* str.strip()

EndsWith(s, suffix) == s # <<>> /\ s[Len(s)] = suffix      \* str.endswith()

Replace(s, old, new) == [i \in 1..Len(s) |-> IF s[i] = old THEN new ELSE s[i]]

Split(s, sep) ==                                           \* str.split(sep)
    LET cut == {i \in 1..Len(s) : s[i] = sep}
    IN  IF cut = {} THEN <<s>>
        ELSE LET i == CHOOSE j \in cut : \A k \in cut : j <= k
             IN  <<SubSeq(s, 1, i - 1), SubSeq(s, i + 1, Len(s))>>

Get(d, k, default) == IF k \in DOMAIN d THEN d[k] ELSE default   \* dict.get

EmptyDict == [k \in {} |-> 0]

Min(a, b) == IF a <= b THEN a ELSE b                       \* min(a, b)

\* ------------------------------------------------------ the file system
Join(a, b) == a \o <<"/">> \o b                            \* os.path.join

Parent(path) ==
    LET cut == {i \in 1..Len(path) : path[i] = "/"}
    IN  IF cut = {} THEN <<>>
        ELSE SubSeq(path, 1, (CHOOSE j \in cut : \A k \in cut : j >= k) - 1)

\* a directory path and every directory above it
Ancestors(path) ==
    {SubSeq(path, 1, i - 1) :
        i \in {j \in 1..(Len(path) + 1) : j = Len(path) + 1 \/ path[j] = "/"}}
    \ {<<>>}

MakeDirs(ds, path) == ds \union Ancestors(path)            \* os.makedirs(exist_ok=True)

IsFile(fs, path) == path \in DOMAIN fs                     \* os.path.isfile

ListDir(fs, dir) ==                                        \* os.listdir: names of the files in dir
    {SubSeq(f, Len(dir) + 2, Len(f)) : f \in {g \in DOMAIN fs : Parent(g) = dir}}

\* AppendLine opening the file with "w"
AppendLine_Truncating(fs, path, line) == (path :> <<line>>) @@ fs

AppendLine(fs, path, line) ==                              \* open(path, "a").write(line)
    IF path \in DOMAIN fs
    THEN [fs EXCEPT ![path] = Append(@, line)]
    ELSE (path :> <<line>>) @@ fs

WriteFile(fs, path, text) == (path :> text) @@ fs          \* open(path, "w").write(text)

\* ---------------------------------------------------------- JSON lines
JsonDumps(obj) == [kind |-> "json", obj |-> obj]           \* json.dumps(obj) + "\n"

IsBlank(line) == line.kind = "blank"                       \* not line.strip()

\* ScanLines with the count of a task set to 1 at each of its lines instead
\* of incremented
RECURSIVE ScanLines_NoIncrement(_, _)
ScanLines_NoIncrement(lines, counts) ==
    IF lines = <<>> THEN [error |-> "none", task2nexist |-> counts]
    ELSE LET line == Head(lines) IN
         IF IsBlank(line) THEN ScanLines_NoIncrement(Tail(lines), counts)
         ELSE IF line.kind # "json"
              THEN [error |-> "JSONDecodeError", task2nexist |-> counts]
         ELSE IF "task_id" \notin DOMAIN line.obj
              THEN [error |-> "KeyError", task2nexist |-> counts]
         ELSE ScanLines_NoIncrement(Tail(lines), (line.obj.task_id :> 1) @@ counts)

\* the resume scan of codegen: the counts per task_id, or the exception
\* raised by json.loads(line)["task_id"]
RECURSIVE ScanLines(_, _)
ScanLines(lines, counts) ==
    IF lines = <<>> THEN [error |-> "none", task2nexist |-> counts]
    ELSE LET line == Head(lines) IN
         IF IsBlank(line) THEN ScanLines(Tail(lines), counts)
         ELSE IF line.kind # "json"
              THEN [error |-> "JSONDecodeError", task2nexist |-> counts]
         ELSE IF "task_id" \notin DOMAIN line.obj
              THEN [error |-> "KeyError", task2nexist |-> counts]
         ELSE LET task_id == line.obj.task_id
              IN  ScanLines(Tail(lines),
                            (task_id :> (Get(counts, task_id, 0) + 1)) @@ counts)

\* ------------------------------------------- the external collaborators
\* the dataset: an ordered mapping task_id -> {prompt, entry_point}
TaskIds == [i \in 1..NumTasks |-> <<"HumanEval", "/", Str(i - 1)>>]

Task(t) ==
    [prompt      |-> <<" ", "def", t[3], "\n", " ">>,
     entry_point |-> <<"f", t[3]>>]

\* the backend: for a prompt it produces the completions Completion(1),
\* Completion(2), ...; one call returns the first few of them, and how many
\* is up to the backend
Completion(k) ==
    IF k % 2 = 1 THEN <<"~~~", "return", Str(k)>> ELSE <<"return", Str(k)>>

BackendOutputs == {[k \in 1..len |-> Completion(k)] : len \in 0..MaxOutputs}

\* the sanitizer: a pure function of the raw text and the entry point
Sanitize(text, entrypoint) ==
    <<"#">> \o entrypoint \o SelectSeq(text, LAMBDA tok : tok # "~~~")

\* ------------------------------------------------------------- the state
VARIABLES
    files,            \* file system: path -> content, for the files that exist
    dirs,             \* file system: the directories that exist
    jsonl_fmt,        \* run_codegen: the layout of this output location
    direct,           \* model.is_direct_completion() of the model of this location
    run,              \* number of run_codegen invocations so far
    pc,               \* position of the current invocation
    failure,          \* the exception that ended the last invocation, or "none"
    target_path, n_samples, resume, greedy, id_range,   \* arguments of codegen
    model_runner,     \* run_codegen: the model made by make_model, or "none"
    raw_target_path,  \* codegen
    task2nexist,      \* codegen: existing count per task_id
    tix,              \* codegen: position of the for loop in dataset.items()
    p_name, sidx, outputs,                    \* codegen: locals of the loop body
    skipped,          \* tasks reported as skipped in this invocation
    lastCall,         \* the backend's record of the last model.codegen call
    ncalls,           \* the backend's count of the calls made for the current task
    received,         \* the completions the backend returned for the current task
    written,          \* every completed file write: [task, idx, form, at]
    hist,             \* how the output location was used so far
    files0,           \* the files as the current invocation found them
    call              \* the dataset and id_range the last invocation was called with

cfgvars == <<jsonl_fmt, direct>>
argvars == <<target_path, n_samples, resume, greedy, id_range>>
locals == <<model_runner, raw_target_path, task2nexist, tix, p_name, sidx,
            outputs, skipped>>
vars == <<files, dirs, jsonl_fmt, direct, run, pc, failure,
          target_path, n_samples, resume, greedy, id_range,
          model_runner, raw_target_path, task2nexist, tix, p_name, sidx,
          outputs, skipped, lastCall, ncalls, received, written, hist,
          files0, call>>

Root == <<"evalplus_results">>

\* what a caller passes to run_codegen
Datasets == {"humaneval", "apps"}
IdRanges == {None, <<0, 1>>, <<1, 2>>, <<0, 2>>, <<1, 0>>, <<1, 1>>, <<0, 1, 2>>}
Temperatures == {0, 8}                   \* in tenths: 0.0 and 0.8
NoBatchSize == <<>>                      \* bs=None
BatchSizes == {NoBatchSize, <<2>>}

\* f"{temperature}" of a float
FloatStr(temperature) == <<"0", ".", Str(temperature)>>

\* lines 212-214: the name of the model, the backend and the temperature
Identifier(temperature) == <<"model", "_vllm_temp_">> \o FloatStr(temperature)

\* make_model: what run_codegen has before the model is made, and the model
NoModel == [name |-> "none", batch_size |-> 0, temperature |-> 0]
MakeModel(batch_size, temperature) ==
    [name |-> "DecoderBase", batch_size |-> batch_size, temperature |-> temperature]

NoCall == [prompt |-> <<>>, do_sample |-> FALSE, num_samples |-> 0, nout |-> 0]

\* hist.uniform: every invocation so far had resume on and the same n_samples
\*               and id_range
\* hist.polite:  no backend call returned more than it was asked for
\* hist.S:       the completions the first invocation received, in order
NoHist == [uniform |-> TRUE, polite |-> TRUE, S |-> <<>>]

EmptyLocation ==
    /\ files = EmptyDict
    /\ dirs = {}

NoProcess ==
    /\ model_runner = NoModel
    /\ raw_target_path = <<>>
    /\ task2nexist = EmptyDict
    /\ tix = 0
    /\ p_name = <<>>
    /\ sidx = 0
    /\ outputs = <<>>
    /\ skipped = {}
    /\ lastCall = NoCall
    /\ ncalls = 0
    /\ received = <<>>

InitRun ==
    /\ run = 0
    /\ pc = "idle"
    /\ failure = "none"
    /\ target_path = <<>>
    /\ n_samples = 1
    /\ resume = TRUE
    /\ greedy = FALSE
    /\ id_range = None
    /\ NoProcess
    /\ written = {}
    /\ hist = NoHist
    /\ call = [dataset |-> "none", id_range |-> None]

Init ==
    /\ jsonl_fmt \in BOOLEAN
    /\ direct \in BOOLEAN
    /\ EmptyLocation
    /\ files0 = files
    /\ InitRun

Running == pc \in {"scan", "task", "while", "write_san", "write_raw"}

\* the task the for loop of codegen is at
task_id == TaskIds[tix]

\* the process ends: with an exception (status "failed") or by returning
Exit(status, msg) ==
    /\ pc' = status
    /\ failure' = msg
    /\ model_runner' = NoModel
    /\ raw_target_path' = <<>>
    /\ task2nexist' = EmptyDict
    /\ tix' = 0
    /\ p_name' = <<>>
    /\ sidx' = 0
    /\ outputs' = <<>>
    /\ skipped' = {}

\* --------------------------------------------------------- run_codegen
\* ConfigError with every check passing
ConfigError_Lenient(dataset, rng) == "none"

\* lines 156-173: the checks of the arguments
ConfigError(dataset, rng) ==
    IF dataset \notin {"humaneval", "mbpp"} THEN "Invalid dataset"
    ELSE IF rng # None /\ Len(rng) # 2 THEN "id_range must be a list of length 2"
    ELSE IF rng # None /\ ~(rng[1] < rng[2]) THEN "id_range must be increasing"
    ELSE "none"

\* Greedy leaving the values as they were passed
Greedy_Off(gr, temperature, bs, n) ==
    [temperature |-> temperature, bs |-> bs, n_samples |-> n]

\* lines 164-167: greedy decoding sets temperature, bs and n_samples
Greedy(gr, temperature, bs, n) ==
    IF gr /\ (temperature # 0 \/ bs # <<1>> \/ n # 1)
    THEN [temperature |-> 0, bs |-> <<1>>, n_samples |-> 1]
    ELSE [temperature |-> temperature, bs |-> bs, n_samples |-> n]

\* lines 175-176: the batch size when none was given
BatchSize(bs, n) == IF bs = NoBatchSize THEN Min(n, 32) ELSE bs[1]

\* lines 212-218: root/dataset/identifier, with ".jsonl" in the log layout
TargetPath(dataset, temperature, fmt) ==
    LET base == Join(Join(Root, <<dataset>>), Identifier(temperature))
    IN  IF fmt THEN base \o <<".jsonl">> ELSE base

\* lines 156-220: the checks, the directories, the model and the target
\* path; ends in the call of codegen
RunCodegen ==
    /\ pc \in {"idle", "done", "failed"}
    /\ run < MaxRuns
    /\ run' = run + 1
    /\ \E dataset \in Datasets, n \in 1..MaxSamples, res \in BOOLEAN,
          gr \in BOOLEAN, rng \in IdRanges, temperature \in Temperatures,
          bs \in BatchSizes :
        LET g == Greedy(gr, temperature, bs, n)
            target == TargetPath(dataset, g.temperature, jsonl_fmt)
            dirs1 == MakeDirs(MakeDirs(dirs, Root), Join(Root, <<dataset>>))
        IN  /\ call' = [dataset |-> dataset, id_range |-> rng]
            /\ IF ConfigError(dataset, rng) # "none"
               THEN /\ Exit("failed", ConfigError(dataset, rng))
                    /\ UNCHANGED <<argvars, dirs, hist>>
               ELSE /\ pc' = "scan"
                    /\ failure' = "none"
                    /\ n_samples' = g.n_samples
                    /\ resume' = res
                    /\ greedy' = gr
                    /\ id_range' = rng
                    /\ model_runner' = MakeModel(BatchSize(g.bs, g.n_samples),
                                                 g.temperature)
                    /\ target_path' = target
                    /\ dirs' = IF jsonl_fmt THEN dirs1 ELSE MakeDirs(dirs1, target)
                    /\ hist' = IF target_path = <<>>
                               THEN [NoHist EXCEPT !.uniform = res]
                               ELSE [hist EXCEPT
                                       !.uniform = @ /\ res /\ g.n_samples = n_samples
                                                     /\ rng = id_range
                                                     /\ target = target_path]
                    /\ UNCHANGED <<raw_target_path, task2nexist, tix, p_name, sidx,
                                   outputs, skipped>>
    /\ lastCall' = NoCall
    /\ ncalls' = 0
    /\ received' = <<>>
    /\ files0' = files
    /\ UNCHANGED <<files, cfgvars, written>>

\* ------------------------------------------------------------- codegen
\* lines 37-40: where the raw outputs go
RawTargetPath(target) ==
    IF EndsWith(target, ".jsonl")
    THEN Replace(target, ".jsonl", ".raw.jsonl")
    ELSE target \o <<".raw">>

\* line 71: the name of the directory of a task
PName(t) == Replace(t, "/", "_")

\* lines 28-41: the resume scan of the log, the raw path, the target directory
Scan ==
    /\ pc = "scan"
    /\ LET scanned ==
               IF resume /\ EndsWith(target_path, ".jsonl") /\ IsFile(files, target_path)
               THEN ScanLines(files[target_path], EmptyDict)
               ELSE [error |-> "none", task2nexist |-> EmptyDict]
       IN  IF scanned.error # "none"
           THEN /\ Exit("failed", scanned.error)
                /\ UNCHANGED dirs
           ELSE /\ pc' = "task"
                /\ task2nexist' = scanned.task2nexist
                /\ tix' = 1
                /\ raw_target_path' = RawTargetPath(target_path)
                /\ dirs' = IF EndsWith(target_path, ".jsonl")
                           THEN dirs
                           ELSE MakeDirs(dirs, target_path)
                /\ UNCHANGED <<failure, model_runner, p_name, sidx, outputs,
                               skipped>>
    /\ UNCHANGED <<files, cfgvars, run, argvars, lastCall, ncalls, received, written, hist,
                   files0, call>>

\* Excluded with the upper bound of id_range included in the range
Excluded_HighIncluded(t) ==
    /\ id_range # None
    /\ LET id_num == ParseInt(Split(t, "/")[2][1])
           low == id_range[1]
           high == id_range[2]
       IN  id_num < low \/ id_num > high

\* lines 63-66: the task is outside id_range
Excluded(t) ==
    /\ id_range # None
    /\ LET id_num == ParseInt(Split(t, "/")[2][1])
           low == id_range[1]
           high == id_range[2]
       IN  id_num < low \/ id_num >= high

\* SkipTask without the report of line 67
SkipTask_Silent ==
    /\ pc = "task"
    /\ tix <= Len(TaskIds)
    /\ Excluded(task_id)
    /\ tix' = tix + 1
    /\ UNCHANGED <<files, dirs, cfgvars, run, pc, failure, argvars, model_runner,
                   raw_target_path, task2nexist, p_name, sidx, outputs, skipped,
                   lastCall, ncalls, received, written, hist, files0, call>>

\* lines 62-68: a task outside id_range is reported and skipped
SkipTask ==
    /\ pc = "task"
    /\ tix <= Len(TaskIds)
    /\ Excluded(task_id)
    /\ skipped' = skipped \union {task_id}
    /\ tix' = tix + 1
    /\ UNCHANGED <<files, dirs, cfgvars, run, pc, failure, argvars, model_runner,
                   raw_target_path, task2nexist, p_name, sidx, outputs,
                   lastCall, ncalls, received, written, hist,
                   files0, call>>

\* FirstIndex ignoring the existing count
FirstIndex_Zero(n, res, nexist) == 0

\* FirstIndex resuming only while samples are missing: a task that has
\* n_samples or more starts again at index 0
FirstIndex_RestartsWhenSatisfied(n, res, nexist) ==
    IF res /\ nexist > 0 /\ nexist < n THEN nexist ELSE 0

\* lines 81-89: the first write index of a task
FirstIndex(n, res, nexist) ==
    LET n_more_samples == IF res /\ nexist > 0 THEN n - nexist ELSE n
    IN  n - n_more_samples

\* lines 73-79: the number of .py files in the task directory
CountSamples(fs, taskdir) ==
    Cardinality({f \in ListDir(fs, taskdir) : EndsWith(f, ".py")})

\* lines 70-89: the task directory, the existing count, the first index
StartTask ==
    /\ pc = "task"
    /\ tix <= Len(TaskIds)
    /\ ~Excluded(task_id)
    /\ LET name == PName(task_id)
           taskdir == Join(target_path, name)
           counts == IF ~EndsWith(target_path, ".jsonl")
                     THEN (task_id :> CountSamples(files, taskdir)) @@ task2nexist
                     ELSE task2nexist
       IN  /\ IF ~EndsWith(target_path, ".jsonl")
              THEN /\ p_name' = name
                   /\ dirs' = MakeDirs(dirs, taskdir)
              ELSE UNCHANGED <<p_name, dirs>>
           /\ task2nexist' = counts
           /\ sidx' = FirstIndex(n_samples, resume, Get(counts, task_id, 0))
    /\ ncalls' = 0
    /\ received' = <<>>
    /\ pc' = "while"
    /\ UNCHANGED <<files, cfgvars, run, failure, argvars, model_runner,
                   raw_target_path, tix, outputs, skipped, lastCall, written, hist,
                   files0, call>>

\* line 62: the for loop is exhausted, codegen and run_codegen return
Finish ==
    /\ pc = "task"
    /\ tix > Len(TaskIds)
    /\ Exit("done", "none")
    /\ UNCHANGED <<files, dirs, cfgvars, run, argvars, lastCall, ncalls, received, written, hist,
                   files0, call>>

\* AssertOutputs with the assertion gone
AssertOutputs_Off(outs) == TRUE

\* line 97: assert outputs
AssertOutputs(outs) == outs # <<>>

\* lines 90-98: one round of the while loop: the backend call, its assert,
\* and the entry of the for loop over the outputs
ModelCodegen ==
    /\ pc = "while"
    /\ sidx < n_samples
    /\ \E outs \in BackendOutputs :
        LET prompt == Strip(Task(task_id).prompt) \o <<"\n">>
            num_samples == n_samples - sidx
        IN  /\ hist' = [hist EXCEPT !.polite = @ /\ Len(outs) <= num_samples,
                                    !.S = IF run = 1 THEN @ \o outs ELSE @]
            /\ received' = received \o outs
            /\ lastCall' = [prompt |-> prompt, do_sample |-> ~greedy,
                            num_samples |-> num_samples, nout |-> Len(outs)]
            /\ IF ~AssertOutputs(outs)
               THEN Exit("failed", "No outputs from model!")
               ELSE /\ pc' = IF outs = <<>> THEN "while" ELSE "write_san"
                    /\ outputs' = outs
                    /\ UNCHANGED <<failure, model_runner, raw_target_path,
                                   task2nexist, tix, p_name, sidx, skipped>>
    /\ ncalls' = ncalls + 1
    /\ UNCHANGED <<files, dirs, cfgvars, run, argvars, written, files0, call>>

\* line 90: the while loop of a task ends, the for loop moves on
EndTask ==
    /\ pc = "while"
    /\ ~(sidx < n_samples)
    /\ pc' = "task"
    /\ tix' = tix + 1
    /\ UNCHANGED <<files, dirs, cfgvars, run, failure, argvars, model_runner,
                   raw_target_path, task2nexist, p_name, sidx, outputs, skipped,
                   lastCall, ncalls, received, written, hist,
                   files0, call>>

\* lines 91, 99: the raw sample made of a completion
Solution(t, impl) ==
    LET prompt == Strip(Task(t).prompt) \o <<"\n">>
    IN  IF direct THEN prompt \o impl ELSE impl

\* lines 100-102
SanitizedSolution(t, impl) == Sanitize(Solution(t, impl), Task(t).entry_point)

\* os.path.join(root, p_name, f"{i}.py")
SampleFile(root, name, i) == Join(Join(root, name), <<Str(i), ".py">>)

\* lines 98-111, 120-126: the sanitized form of the next completion
WriteSanitized ==
    /\ pc = "write_san"
    /\ LET sanitized_solution == SanitizedSolution(task_id, Head(outputs))
       IN  IF EndsWith(target_path, ".jsonl")
           THEN files' = AppendLine(files, target_path,
                             JsonDumps([task_id |-> task_id,
                                        solution |-> sanitized_solution]))
           ELSE files' = WriteFile(files, SampleFile(target_path, p_name, sidx),
                                   sanitized_solution)
    /\ written' = written \union
           {[task |-> task_id, idx |-> sidx, form |-> "sanitized",
             at |-> target_path]}
    /\ pc' = "write_raw"
    /\ UNCHANGED <<dirs, cfgvars, run, failure, argvars, model_runner,
                   raw_target_path, task2nexist, tix, p_name, sidx, outputs,
                   skipped, lastCall, ncalls, received, hist,
                   files0, call>>

\* Advance leaving the index where it is
Advance_Stuck(i) == i

\* line 135: sidx += 1
Advance(i) == i + 1

\* lines 113-118, 128-135: the raw form, then sidx += 1 and the next completion
WriteRaw ==
    /\ pc = "write_raw"
    /\ LET solution == Solution(task_id, Head(outputs))
           path == IF EndsWith(target_path, ".jsonl")
                   THEN raw_target_path
                   ELSE SampleFile(raw_target_path, p_name, sidx)
       IN  IF Parent(path) \notin dirs
           THEN /\ Exit("failed", "FileNotFoundError")
                /\ UNCHANGED <<files, written>>
           ELSE /\ files' = IF EndsWith(target_path, ".jsonl")
                            THEN AppendLine(files, path,
                                     JsonDumps([task_id |-> task_id,
                                                solution |-> solution]))
                            ELSE WriteFile(files, path, solution)
                /\ written' = written \union
                       {[task |-> task_id, idx |-> sidx, form |-> "raw",
                         at |-> target_path]}
                /\ sidx' = Advance(sidx)
                /\ outputs' = Tail(outputs)
                /\ pc' = IF Tail(outputs) = <<>> THEN "while" ELSE "write_san"
                /\ UNCHANGED <<failure, model_runner, raw_target_path,
                               task2nexist, tix, p_name, skipped>>
    /\ UNCHANGED <<dirs, cfgvars, run, argvars, lastCall, ncalls, received, hist,
                   files0, call>>

\* the process is interrupted (KeyboardInterrupt, kill) between two steps
Interrupt ==
    /\ Running
    /\ Exit("failed", "KeyboardInterrupt")
    /\ UNCHANGED <<files, dirs, cfgvars, run, argvars, lastCall, ncalls, received, written, hist,
                   files0, call>>

Next ==
    \/ RunCodegen
    \/ Scan
    \/ SkipTask
    \/ StartTask
    \/ Finish
    \/ ModelCodegen
    \/ EndTask
    \/ WriteSanitized
    \/ WriteRaw
    \/ Interrupt

Spec == Init /\ [][Next]_vars

\* one invocation of run_codegen, run to its end
RunCodegenOnce == run = 0 /\ RunCodegen

NextOnce ==
    \/ RunCodegenOnce
    \/ Scan
    \/ SkipTask
    \/ StartTask
    \/ Finish
    \/ ModelCodegen
    \/ EndTask
    \/ WriteSanitized
    \/ WriteRaw
    \/ Interrupt

\* A log layout location whose sanitized log was left by something else
\* (an edited or damaged file): any short sequence of a record of the first
\* task, a record without task_id, a blank line and a line that is no JSON.
LogLineSamples ==
    {JsonDumps([task_id |-> TaskIds[1],
                solution |-> Sanitize(Completion(1), Task(TaskIds[1]).entry_point)]),
     JsonDumps([solution |-> <<"return">>]),
     [kind |-> "blank", obj |-> [solution |-> <<>>]],
     [kind |-> "text", obj |-> [solution |-> <<>>]]}

RECURSIVE SeqsUpTo(_, _)
SeqsUpTo(S, n) ==
    IF n = 0 THEN {<<>>}
    ELSE LET shorter == SeqsUpTo(S, n - 1)
         IN  shorter \union {Append(q, x) : q \in shorter, x \in S}

InitLog ==
    /\ jsonl_fmt = TRUE
    /\ direct \in BOOLEAN
    /\ files \in {(TargetPath("humaneval", 0, TRUE) :> log) :
                     log \in SeqsUpTo(LogLineSamples, MaxLogLines)}
    /\ dirs = Ancestors(Parent(TargetPath("humaneval", 0, TRUE)))
    /\ files0 = files
    /\ InitRun

\* one invocation of run_codegen on such a location
SpecLog == InitLog /\ [][NextOnce]_vars

\* A directory layout location found with sample files of the first task
\* left by earlier use, some of them deleted since: the files of any set of
\* indices up to MaxOldIndex, with the mirrored raw tree or without it.
OldText == <<"old">>

InitDir ==
    /\ jsonl_fmt = FALSE
    /\ direct \in BOOLEAN
    /\ \E I \in SUBSET (0..MaxOldIndex), mirrored \in BOOLEAN :
          LET target == TargetPath("humaneval", 0, FALSE)
              name == PName(TaskIds[1])
              roots == IF mirrored THEN {target, RawTargetPath(target)} ELSE {target}
          IN  /\ files = [path \in {SampleFile(root, name, i) : root \in roots, i \in I}
                              |-> OldText]
              /\ dirs = UNION {Ancestors(Join(root, name)) : root \in roots}
    /\ files0 = files
    /\ InitRun

\* one invocation of run_codegen on such a location
SpecDir == InitDir /\ [][NextOnce]_vars

\* The process keeps running: every step of run_codegen and codegen that can
\* be taken is taken, the backend call included (it is synchronous and
\* returns).  Calls of run_codegen and interrupts come from outside and are
\* under no such obligation.
Fairness ==
    /\ WF_vars(Scan)
    /\ WF_vars(SkipTask)
    /\ WF_vars(StartTask)
    /\ WF_vars(Finish)
    /\ WF_vars(ModelCodegen)
    /\ WF_vars(EndTask)
    /\ WF_vars(WriteSanitized)
    /\ WF_vars(WriteRaw)

\* one invocation of run_codegen, on an empty location of either layout or
\* on a directory layout location that has files
FairSpec == (Init \/ InitDir) /\ [][NextOnce]_vars /\ Fairness

\* ------------------------------------------------- reading the location
\* the output location of the last invocation that reached codegen
Target == target_path
RawTarget == RawTargetPath(Target)

Tasks == {TaskIds[k] : k \in 1..Len(TaskIds)}

\* the records of a task in a log, in file order
LinesOf(path, t) ==
    IF IsFile(files, path)
    THEN SelectSeq(files[path],
                   LAMBDA line : /\ line.kind = "json"
                                 /\ "task_id" \in DOMAIN line.obj
                                 /\ line.obj.task_id = t)
    ELSE <<>>

\* the indices of the samples of a task under a root: the positions of its
\* records in the log, or the numbers of its files in the task directory
Indices(root, t) ==
    IF jsonl_fmt
    THEN 0..(Len(LinesOf(root, t)) - 1)
    ELSE {i \in 0..9 : IsFile(files, SampleFile(root, PName(t), i))}

\* the text of sample i of a task under a root
Text(root, t, i) ==
    IF jsonl_fmt
    THEN LinesOf(root, t)[i + 1].obj.solution
    ELSE files[SampleFile(root, PName(t), i)]

\* what the resume scan of an invocation started now would report for a task
ExistingCount(t) ==
    IF jsonl_fmt
    THEN IF IsFile(files, Target)
         THEN Get(ScanLines(files[Target], EmptyDict).task2nexist, t, 0)
         ELSE 0
    ELSE CountSamples(files, Join(Target, PName(t)))

\* samples whose sanitized form was written and whose raw form never was
Torn ==
    {w \in written : w.form = "sanitized" /\ [w EXCEPT !.form = "raw"] \notin written}

\* the number of lines of a log, 0 when there is none
Size(fs, path) == IF IsFile(fs, path) THEN Len(fs[path]) ELSE 0

\* the lines the current invocation appended to a log
NewLines(path) == SubSeq(files[path], Size(files0, path) + 1, Size(files, path))

\* the new lines of a log that are well-formed records of a task
NewLinesOf(path, t) ==
    IF IsFile(files, path)
    THEN SelectSeq(NewLines(path),
                   LAMBDA line : line = JsonDumps([task_id |-> t,
                                                   solution |-> line.obj.solution]))
    ELSE <<>>

\* the failures of the checks of run_codegen
ConfigFailures ==
    {"Invalid dataset", "id_range must be a list of length 2",
     "id_range must be increasing"}

\* ------------------------------------------------------------ the claims

\* C1 (resume idempotence): from an empty location, when an invocation with
\* resume on completes after any number of stopped invocations of the same
\* command (resume on, same n_samples, same id_range, a backend that never
\* returns more than asked), every processed task has exactly n_samples
\* samples, sanitized and raw, with the indices 0..n_samples-1.
C1_ResumeIdempotence ==
    (pc = "done" /\ hist.uniform /\ hist.polite) =>
        \A t \in Tasks : ~Excluded(t) =>
            /\ Indices(Target, t) = 0..(n_samples - 1)
            /\ Indices(RawTarget, t) = 0..(n_samples - 1)

\* C2 (raw/sanitized pairing): whenever no invocation is running (it
\* completed, failed or was interrupted), every sanitized sample has a raw
\* sample with the same task and index, and the sanitized text is the
\* sanitizer's result on that raw text.
C2_RawSanitizedPairing ==
    ~Running =>
        \A t \in Tasks : \A i \in Indices(Target, t) :
            /\ i \in Indices(RawTarget, t)
            /\ Text(Target, t, i) = Sanitize(Text(RawTarget, t, i), Task(t).entry_point)

\* C3 (scheduler target): when the while loop of a task ends, whatever the
\* lengths of the non-empty sequences the backend returned, the write index
\* (the existing count plus the samples written) is exactly n_samples, for a
\* task that did not already have more than n_samples.
C3_SchedulerTarget ==
    (/\ pc = "while"
     /\ ~(sidx < n_samples)
     /\ (IF resume THEN Get(task2nexist, task_id, 0) ELSE 0) <= n_samples)
    => sidx = n_samples

\* C4 (failed write is all-or-nothing): a sample whose sanitized form was
\* written and whose raw form was not is not counted by the resume scan of a
\* later invocation: the existing count of its task does not cover its index.
C4_FailedWriteNotCounted ==
    (Running /\ pc # "scan" /\ resume) =>
        \A w \in Torn :
            (w.at = target_path /\ (jsonl_fmt \/ w.task \in DOMAIN task2nexist))
                => Get(task2nexist, w.task, 0) <= w.idx

\* C5 (directory creation before write): in the directory layout, when a
\* sample is about to be written the task directory exists under the
\* sanitized root and under the raw root, and no write fails for a missing
\* directory.
C5_DirectoriesBeforeWrite ==
    /\ (pc \in {"write_san", "write_raw"} /\ ~EndsWith(target_path, ".jsonl")) =>
           /\ Join(target_path, p_name) \in dirs
           /\ Join(raw_target_path, p_name) \in dirs
    /\ failure # "FileNotFoundError"

\* C6 (zero-deficit skip): with resume on, a task whose existing count is
\* n_samples or more (strictly more included) gets no backend call, no file
\* and no log line is written for it, and the loop just moves on to the next
\* task: the only other way out is an interrupt of the process.
ZeroDeficit == pc = "while" /\ resume /\ Get(task2nexist, task_id, 0) >= n_samples

C6_ZeroDeficitSkip ==
    /\ [](ZeroDeficit => (ncalls = 0 /\ ~(sidx < n_samples)))
    /\ [][(pc = "task" /\ ZeroDeficit') => files' = files]_vars
    /\ [][ZeroDeficit =>
            /\ files' = files
            /\ ncalls' = ncalls
            /\ \/ pc' = "task" /\ tix' = tix + 1
               \/ pc' = "failed" /\ failure' = "KeyboardInterrupt"]_vars

\* the loop has just moved past a task that had more samples than asked for
C6_Witness ==
    /\ pc = "task"
    /\ tix > 1
    /\ resume
    /\ ~Excluded(TaskIds[tix - 1])
    /\ Get(task2nexist, TaskIds[tix - 1], 0) > n_samples
    /\ ncalls = 0

C8_MalformedLinesSkipped ==
    /\ failure \notin {"JSONDecodeError", "KeyError"}
    /\ (pc = "task" /\ tix = 1 /\ resume /\ jsonl_fmt) =>
           \A t \in Tasks : Get(task2nexist, t, 0) = Len(LinesOf(target_path, t))

\* C9 (backend integrity error): a backend call for a positive count that
\* returns nothing ends the invocation with the failure "No outputs from
\* model!" and writes nothing; the files, directories and samples persisted
\* before the call are left as they were, and what a later resume scan
\* reports still covers every sample written before.
C9_EmptyOutputsFatal ==
    /\ [][(ncalls' = ncalls + 1 /\ lastCall'.num_samples > 0 /\ lastCall'.nout = 0) =>
            /\ pc' = "failed"
            /\ failure' = "No outputs from model!"
            /\ files' = files
            /\ dirs' = dirs
            /\ written' = written]_vars
    /\ []((pc = "failed" /\ failure = "No outputs from model!") =>
            \A w \in written : w.at = target_path => ExistingCount(w.task) > w.idx)

\* the backend returned nothing after samples had been written
C9_Witness ==
    /\ pc = "failed"
    /\ failure = "No outputs from model!"
    /\ lastCall.nout = 0
    /\ lastCall.num_samples > 0
    /\ \E w \in written :
          w.at = target_path /\ w.form = "raw" /\ ExistingCount(w.task) > w.idx

\* C10 (layout equivalence): in either layout, the first invocation on an
\* empty location, when it is not interrupted and its backend returns between
\* one completion and the requested count, completes, and the multiset of
\* (task_id, raw_text, sanitized_text) it persisted is the one made of the
\* completions it received: the two layouts persist the same multiset for the
\* same completions.
Missing == <<"<missing>">>

Slots == {<<t, i>> : t \in Tasks, i \in 0..9} \cap
         {sl \in Tasks \X (0..9) :
              sl[2] \in Indices(Target, sl[1]) \union Indices(RawTarget, sl[1])}

PersistedTuple(t, i) ==
    <<t,
      IF i \in Indices(RawTarget, t) THEN Text(RawTarget, t, i) ELSE Missing,
      IF i \in Indices(Target, t) THEN Text(Target, t, i) ELSE Missing>>

PersistedBag ==
    [x \in {PersistedTuple(sl[1], sl[2]) : sl \in Slots} |->
        Cardinality({sl \in Slots : PersistedTuple(sl[1], sl[2]) = x})]

ProcessedTasks == SelectSeq(TaskIds, LAMBDA t : ~Excluded(t))

ExpectedTuple(j) ==
    LET t == ProcessedTasks[((j - 1) \div n_samples) + 1]
    IN  <<t, Solution(t, hist.S[j]), SanitizedSolution(t, hist.S[j])>>

ExpectedBag ==
    [x \in {ExpectedTuple(j) : j \in 1..Len(hist.S)} |->
        Cardinality({j \in 1..Len(hist.S) : ExpectedTuple(j) = x})]

C10_LayoutEquivalence ==
    (/\ run = 1
     /\ pc \in {"done", "failed"}
     /\ target_path # <<>>
     /\ hist.polite
     /\ failure \notin {"KeyboardInterrupt", "No outputs from model!"})
    => (pc = "done" /\ PersistedBag = ExpectedBag)

\* the same statement for the log layout alone
C10_LogLayoutOnly == jsonl_fmt => C10_LayoutEquivalence

\* C11 (range filter boundary): with id_range = [low, high) the for loop
\* processes a task if and only if the number after the "/" of its identifier
\* is at least low and less than high (low and high-1 are processed, high is
\* skipped and reported); with no id_range every task is processed.  The
\* number of the task at position tix of the dataset is tix - 1.
C11_RangeFilterBoundary ==
    /\ [][(pc = "task" /\ tix <= NumTasks /\ pc' # "failed") =>
            IF id_range = None \/ (id_range[1] <= tix - 1 /\ tix - 1 < id_range[2])
            THEN pc' = "while" /\ tix' = tix
            ELSE pc' = "task" /\ tix' = tix + 1 /\ TaskIds[tix] \in skipped']_vars
    /\ [](pc \in {"while", "write_san", "write_raw"} =>
            (id_range = None \/ (id_range[1] <= tix - 1 /\ tix - 1 < id_range[2])))

\* with the range [0, 1) task 0 (low and high-1) was processed with backend
\* calls and every task from number 1 (high) on was skipped
C11_Witness ==
    /\ id_range = <<0, 1>>
    /\ pc = "task"
    /\ tix = NumTasks + 1
    /\ skipped = {TaskIds[k] : k \in 2..NumTasks}
    /\ \E w \in written : w.task = TaskIds[1] /\ w.at = target_path

\* C12 (excluded tasks have no effect): the step over a task outside
\* id_range reports the skip and changes nothing else: no backend call, no
\* file, no log line, no directory, no existing count; and the first write
\* index of every processed task is the existing count of that task alone
\* (0 with resume off), whatever the counts of the excluded tasks are.
C12_ExcludedNoEffect ==
    /\ [][(pc = "task" /\ tix <= NumTasks /\ Excluded(task_id) /\ pc' # "failed") =>
            /\ task_id \in skipped'
            /\ pc' = "task" /\ tix' = tix + 1
            /\ files' = files /\ dirs' = dirs /\ written' = written
            /\ ncalls' = ncalls /\ lastCall' = lastCall
            /\ task2nexist' = task2nexist]_vars
    /\ [][(pc = "task" /\ pc' = "while") =>
            sidx' = (IF resume THEN ExistingCount(task_id) ELSE 0)]_vars

\* a second invocation skipped task 0, whose records the scan had counted,
\* and went on to process task 1
C12_Witness ==
    /\ run = 2
    /\ pc = "while"
    /\ tix = 2
    /\ TaskIds[1] \in skipped
    /\ Get(task2nexist, TaskIds[1], 0) > 0
    /\ resume

\* C13 (resume disabled): an invocation with resume off starts every
\* processed task at write index 0 and first asks for n_samples; it deletes
\* nothing that was there; and, not interrupted and with a backend returning
\* between one completion and the requested count, it completes, leaving in
\* the log layout the lines it found followed by n_samples new lines per
\* processed task in each log, and in the directory layout a sanitized and a
\* raw file at every index 0..n_samples-1 of every processed task, with the
\* files at the other indices as they were.
RewrittenFiles ==
    {SampleFile(root, PName(t), i) :
        root \in {target_path, RawTargetPath(target_path)},
        t \in {u \in Tasks : ~Excluded(u)},
        i \in 0..(n_samples - 1)}

C13_ResumeDisabled ==
    /\ (pc = "while" /\ ~resume /\ ncalls = 0) => sidx = 0
    /\ (Running /\ ~resume /\ ncalls = 1) => lastCall.num_samples = n_samples
    /\ (~resume /\ target_path # <<>>) =>
           \A path \in DOMAIN files0 :
               /\ path \in DOMAIN files
               /\ IF jsonl_fmt
                  THEN SubSeq(files[path], 1, Len(files0[path])) = files0[path]
                  ELSE path \notin RewrittenFiles => files[path] = files0[path]
    /\ (/\ ~resume /\ target_path # <<>> /\ ~Running /\ hist.polite
        /\ failure \notin ConfigFailures
        /\ failure \notin {"KeyboardInterrupt", "No outputs from model!"})
       => /\ pc = "done"
          /\ \A t \in Tasks : ~Excluded(t) =>
                IF jsonl_fmt
                THEN /\ Len(NewLinesOf(target_path, t)) = n_samples
                     /\ Len(NewLinesOf(RawTargetPath(target_path), t)) = n_samples
                ELSE \A i \in 0..(n_samples - 1) :
                        /\ IsFile(files, SampleFile(target_path, PName(t), i))
                        /\ IsFile(files, SampleFile(RawTargetPath(target_path),
                                                    PName(t), i))

\* the same statement for the log layout alone
C13_LogLayoutOnly == jsonl_fmt => C13_ResumeDisabled

\* a second invocation with resume off completed in the log layout on a
\* location that had records
C13_LogWitness ==
    /\ jsonl_fmt /\ ~resume /\ run = 2 /\ pc = "done" /\ hist.polite
    /\ Size(files0, target_path) > 0
    /\ Size(files, target_path) > Size(files0, target_path)

\* C14 (configuration errors fail fast): an invocation of run_codegen with a
\* dataset outside the supported ones, an id_range that has not exactly two
\* elements, or an id_range with low > high fails with the message of the
\* check, with no model made, no backend call, and no file or directory
\* created or changed.
BadCall ==
    /\ run >= 1
    /\ \/ call.dataset \notin {"humaneval", "mbpp"}
       \/ /\ call.id_range # None
          /\ \/ Len(call.id_range) # 2
             \/ call.id_range[1] > call.id_range[2]

C14_ConfigErrorsFailFast ==
    /\ [](BadCall =>
            /\ pc = "failed"
            /\ failure \in ConfigFailures
            /\ model_runner = NoModel
            /\ ncalls = 0
            /\ lastCall = NoCall)
    /\ [][(run' = run + 1 /\ BadCall') =>
            files' = files /\ dirs' = dirs /\ written' = written]_vars

\* a second invocation, on a location that has samples, was called with an
\* inverted range and failed
C14_Witness ==
    /\ run = 2
    /\ call.id_range = <<1, 0>>
    /\ pc = "failed"
    /\ failure = "id_range must be increasing"
    /\ written # {}

\* C15 (index assignment and request size): with resume on and an existing
\* count E < n_samples, the k-th completion the backend returned for the task
\* (over all rounds, in returned order) is the one written at the index
\* E + k - 1: its sanitized text is what the location holds at that index
\* after the sanitized write, its raw text is what the raw write puts down,
\* and the index then moves on by one.  Every backend call asks for
\* n_samples minus the current write index, which is at least 1.
C15_IndexAssignment ==
    /\ []((pc \in {"write_san", "write_raw"} /\ resume
           /\ Get(task2nexist, task_id, 0) < n_samples) =>
            LET E == Get(task2nexist, task_id, 0)
                k == Len(received) - Len(outputs) + 1
            IN  /\ k >= 1
                /\ sidx = E + k - 1
                /\ Head(outputs) = received[k])
    /\ [][(pc = "write_san" /\ pc' = "write_raw" /\ resume) =>
            /\ sidx \in Indices(Target, task_id)'
            /\ Text(Target, task_id, sidx)' = SanitizedSolution(task_id, Head(outputs))
            /\ sidx' = sidx]_vars
    /\ [][(pc = "write_raw" /\ pc' \in {"while", "write_san"} /\ resume) =>
            /\ IF jsonl_fmt
               THEN files'[raw_target_path][Len(files'[raw_target_path])] =
                        JsonDumps([task_id |-> task_id,
                                   solution |-> Solution(task_id, Head(outputs))])
               ELSE files'[SampleFile(raw_target_path, p_name, sidx)] =
                        Solution(task_id, Head(outputs))
            /\ sidx' = sidx + 1]_vars
    /\ [][(ncalls' = ncalls + 1) =>
            /\ lastCall'.num_samples = n_samples - sidx
            /\ lastCall'.num_samples >= 1]_vars

\* two samples asked for, none existing, the backend returning one completion
\* per call: the requests were 2 and 1 and the indices 0 and 1 were written
C15_Witness ==
    /\ resume
    /\ n_samples = 2
    /\ pc = "while"
    /\ Get(task2nexist, task_id, 0) = 0
    /\ ncalls = 2
    /\ lastCall.num_samples = 1
    /\ received = <<Completion(1), Completion(1)>>
    /\ sidx = 2
    /\ Indices(Target, task_id) = {0, 1}

\* C16 (sample immutability, directory layout): with resume on, whatever
\* numbered sample files the task directory holds when the invocation starts,
\* contiguous from 0 or not, the index about to be written has no file yet,
\* and every file found at the start is still there with the text it had.
C16_SampleImmutability ==
    (resume /\ ~jsonl_fmt /\ target_path # <<>>) =>
        /\ pc = "write_san" => ~IsFile(files, SampleFile(target_path, p_name, sidx))
        /\ \A path \in DOMAIN files0 :
               path \in DOMAIN files /\ files[path] = files0[path]

\* C17 (append-only logs): in the log layout, with resume on or off, the
\* content each log had when the invocation started stays a prefix of its
\* content, up to and including the end of the invocation however it ends;
\* the files change only by one {task_id, solution} line appended to the
\* sanitized log or to the raw log; each sample appends exactly one line to
\* the sanitized log and then exactly one to the raw log, so that between
\* samples and at completion both logs have grown by the same number of lines.
C17_AppendOnlyLogs ==
    /\ [](jsonl_fmt =>
            \A path \in DOMAIN files0 :
                /\ path \in DOMAIN files
                /\ SubSeq(files[path], 1, Len(files0[path])) = files0[path])
    /\ [][(jsonl_fmt /\ files' # files) =>
            \E path \in {target_path, raw_target_path} :
                /\ DOMAIN files' = DOMAIN files \union {path}
                /\ \A other \in DOMAIN files : other # path => files'[other] = files[other]
                /\ Size(files', path) = Size(files, path) + 1
                /\ SubSeq(files'[path], 1, Size(files, path)) =
                       (IF IsFile(files, path) THEN files[path] ELSE <<>>)
                /\ LET line == files'[path][Size(files', path)]
                   IN  line = JsonDumps([task_id |-> task_id,
                                         solution |-> line.obj.solution])]_vars
    /\ [][(jsonl_fmt /\ pc = "write_san" /\ pc' = "write_raw") =>
            /\ Size(files', target_path) = Size(files, target_path) + 1
            /\ Size(files', raw_target_path) = Size(files, raw_target_path)]_vars
    /\ [][(jsonl_fmt /\ pc = "write_raw" /\ pc' \in {"while", "write_san"}) =>
            /\ Size(files', raw_target_path) = Size(files, raw_target_path) + 1
            /\ Size(files', target_path) = Size(files, target_path)]_vars
    /\ []((jsonl_fmt /\ pc \in {"task", "while", "write_san", "done"}) =>
            Size(files, target_path) - Size(files0, target_path) =
                Size(files, RawTargetPath(target_path))
                    - Size(files0, RawTargetPath(target_path)))

\* a second invocation found records in the log, appended to it and failed
C17_Witness ==
    /\ jsonl_fmt
    /\ run = 2
    /\ pc = "failed"
    /\ failure = "No outputs from model!"
    /\ Size(files0, target_path) > 0
    /\ Size(files, target_path) > Size(files0, target_path)
    /\ Size(files, RawTargetPath(target_path)) > Size(files0, RawTargetPath(target_path))

\* C18 (termination of the generation loop): the loop of a task makes at
\* most max(0, n_samples - E) backend calls, E being the existing count the
\* scheduler uses (0 with resume off); the for loop visits the tasks one by
\* one in dataset order and the invocation returns only after the last one;
\* and every invocation ends: it returns, unless a backend call returned
\* nothing, a write failed, a check of the arguments failed or the process
\* was interrupted.
MaxCalls ==
    LET E == IF resume THEN Get(task2nexist, task_id, 0) ELSE 0
    IN  IF n_samples - E > 0 THEN n_samples - E ELSE 0

C18_Termination ==
    /\ [](pc \in {"while", "write_san", "write_raw"} => ncalls <= MaxCalls)
    /\ [][tix' # tix =>
            \/ pc = "scan" /\ tix' = 1
            \/ pc \in {"task", "while"} /\ pc' = "task" /\ tix' = tix + 1
            \/ pc' \in {"done", "failed"} /\ tix' = 0]_vars
    /\ [][pc' = "done" => (pc = "task" /\ tix = NumTasks + 1)]_vars
    /\ [](pc = "failed" =>
            failure \in ConfigFailures \union
                {"No outputs from model!", "FileNotFoundError", "KeyboardInterrupt"})
    /\ (Running ~> (pc \in {"done", "failed"}))

\* an invocation with resume on returned after a single backend call, for
\* the one sample its last task was missing of two
C18_Witness ==
    /\ pc = "done"
    /\ resume
    /\ n_samples = 2
    /\ ncalls = 1
    /\ lastCall.num_samples = 1
    /\ lastCall.nout = 1

\* C19 (greedy mode normalisation): an invocation called with greedy on,
\* whatever n_samples, bs and temperature it was called with, runs codegen
\* with n_samples = 1, on the location of temperature 0.0, with a model made
\* with batch size 1 and temperature 0; every backend call it makes has
\* do_sample off and asks for exactly 1; and with resume on a task that has
\* a sample at the location gets no backend call.
C19_GreedyNormalisation ==
    /\ []((Running /\ greedy) =>
            /\ n_samples = 1
            /\ model_runner = MakeModel(1, 0)
            /\ target_path = TargetPath(call.dataset, 0, jsonl_fmt))
    /\ [][(ncalls' = ncalls + 1 /\ greedy) =>
            /\ lastCall'.do_sample = FALSE
            /\ lastCall'.num_samples = 1]_vars
    /\ [][(pc = "task" /\ pc' = "while" /\ greedy /\ resume
                /\ ExistingCount(task_id) >= 1) =>
            /\ Get(task2nexist', task_id, 0) >= 1
            /\ ~(sidx' < n_samples)]_vars
    /\ []((pc = "while" /\ greedy /\ resume /\ Get(task2nexist, task_id, 0) >= 1) =>
            /\ ncalls = 0
            /\ ~(sidx < n_samples))

\* a second invocation, greedy and with resume on, is at a task whose sample
\* an earlier invocation wrote, and has made no backend call for it
C19_Witness ==
    /\ run = 2
    /\ greedy
    /\ resume
    /\ pc = "while"
    /\ ncalls = 0
    /\ Get(task2nexist, task_id, 0) >= 1
    /\ \E w \in written :
          w.at = target_path /\ w.task = task_id /\ w.form = "raw"

====
